---- MODULE Spec2Model ----
(***************************************************************************)
(* fix_icons.py: decode one embedded base64 literal and write the bytes to  *)
(* four fixed files under icons/.  The model follows the script statement   *)
(* by statement over an explicit file system (directory entries, symbolic   *)
(* links, permissions, free space), so that every exception the library     *)
(* calls raise is decided by the file system the run starts in.             *)
(***************************************************************************)
EXTENDS Integers, Sequences, FiniteSets

VARIABLES
    pc,          \* statement the interpreter is at, or "done" / "error"
    icon_bytes,  \* line 6: the module global; Unbound before the assignment
    i,           \* line 9: position of `name` in the list (0 before the loop)
    handles,     \* file objects that are open: [name, node, buffer]
    stdout,      \* lines printed by the current run
    exc,         \* the exception that ended the run, "" if none
    fs,          \* the file system: working directory, icons/, free space
    run,         \* number of the current invocation
    pre,         \* fs as it was when the current invocation started
    opened,      \* names whose open() was attempted by the current run
    written      \* names whose `with` block completed in the current run

vars == <<pc, icon_bytes, i, handles, stdout, exc, fs, run, pre, opened, written>>

----------------------------------------------------------------------------
(* Line 5: the literal, one element per character. *)
data ==
    << "i","V","B","O","R","w","0","K","G","g","o","A","A","A","A","N",
       "S","U","h","E","U","g","A","A","A","A","E","A","A","A","A","B",
       "C","A","Y","A","A","A","A","f","F","c","S","J","A","A","A","A",
       "D","U","l","E","Q","V","R","4","2","m","P","8","z","8","B","Q",
       "D","w","A","E","h","Q","G","A","h","K","m","M","I","Q","A","A",
       "A","A","B","J","R","U","5","E","r","k","J","g","g","g","=","=" >>

(* The standard base64 alphabet; a character's value is its position - 1. *)
Alphabet ==
    << "A","B","C","D","E","F","G","H","I","J","K","L","M","N","O","P",
       "Q","R","S","T","U","V","W","X","Y","Z","a","b","c","d","e","f",
       "g","h","i","j","k","l","m","n","o","p","q","r","s","t","u","v",
       "w","x","y","z","0","1","2","3","4","5","6","7","8","9","+","/" >>

InAlphabet(ch) == \E k \in 1..Len(Alphabet) : Alphabet[k] = ch

b64value(ch) == (CHOOSE k \in 1..Len(Alphabet) : Alphabet[k] = ch) - 1

IsPad(ch) == ch = "="

IsData(ch) == InAlphabet(ch)

(* base64.b64decode(s) with validate=False, i.e. binascii.a2b_base64 in its *)
(* non-strict mode.  Characters that are neither in the alphabet nor "="    *)
(* are skipped.  The decoder counts the data characters of the current quad *)
(* and the "=" seen since the last data character; it stops at the first    *)
(* "=" it meets with at least two values in the quad and the quad padded to *)
(* four.  If it never stops there, data ending inside a quad raises         *)
(* binascii.Error.                                                          *)
Significant(s) == SelectSeq(s, LAMBDA ch : IsData(ch) \/ IsPad(ch))

QuadPos(t, p) == Cardinality({k \in 1..(p - 1) : IsData(t[k])}) % 4

PadRun(t, p) ==
    LET lastData == {k \in 1..(p - 1) : IsData(t[k])}
        from == IF lastData = {} THEN 0
                ELSE CHOOSE k \in lastData : \A m \in lastData : m <= k
    IN  p - from

StopAt(t) ==
    {p \in 1..Len(t) : IsPad(t[p]) /\ QuadPos(t, p) >= 2
                        /\ QuadPos(t, p) + PadRun(t, p) >= 4}

(* Each quad of 6-bit values v1 v2 v3 v4 yields the bytes                   *)
(* (v1 << 2) | (v2 >> 4), ((v2 & 0xf) << 4) | (v3 >> 2), ((v3 & 3) << 6) | v4. *)
QuadByte(d, j) ==
    LET g == (j - 1) \div 3
        r == (j - 1) % 3
        v(k) == b64value(d[4 * g + k])
    IN  CASE r = 0 -> (v(1) * 4 + v(2) \div 16) % 256
          [] r = 1 -> ((v(2) % 16) * 16 + v(3) \div 4) % 256
          [] r = 2 -> ((v(3) % 4) * 64 + v(4)) % 256

b64decode(s) ==
    LET t == Significant(s)
        stops == StopAt(t)
        end == IF stops = {} THEN Len(t) + 1
               ELSE CHOOSE p \in stops : \A q \in stops : p <= q
        d == SelectSeq(SubSeq(t, 1, end - 1), IsData)
        tail == Len(d) % 4
        n == (Len(d) \div 4) * 3 + (IF tail >= 2 THEN tail - 1 ELSE 0)
    IN  [ok |-> stops # {} \/ tail = 0,
         bytes |-> [j \in 1..n |-> QuadByte(d, j)]]

(* Line 6: the result of the call, and the value it binds to icon_bytes. *)
Decoded == b64decode(data)

EmbeddedImageBytes == Decoded.bytes

Unbound == <<>>

(* The list sorted by name, and the list with one name misspelt. *)
Manifest_sorted == << "128x128.png", "128x128@2x.png", "32x32.png", "icon.png" >>

Manifest_typo == << "32x32.png", "128x128.png", "128x128@2.png", "icon.png" >>

(* Line 9: the list the loop iterates over, in order. *)
Manifest == << "32x32.png", "128x128.png", "128x128@2x.png", "icon.png" >>

ManifestNames == {Manifest[k] : k \in 1..Len(Manifest)}

(* Line 13. *)
Message == "Minimalist icons generated"

----------------------------------------------------------------------------
(* The file system the script runs in.  Paths: the four manifest entries    *)
(* and one other entry of icons/, and one file of the working directory     *)
(* outside icons/.  A node is absent, a regular file, a directory or a      *)
(* symbolic link to another path.                                           *)
Other == "notes.txt"

Outside == "outside.txt"

Paths == ManifestNames \cup {Other, Outside}

Absent == [kind |-> "absent", data |-> <<>>, writable |-> FALSE, target |-> ""]

File(d, w) == [kind |-> "file", data |-> d, writable |-> w, target |-> ""]

Dir == [kind |-> "dir", data |-> <<>>, writable |-> TRUE, target |-> ""]

Link(t) == [kind |-> "link", data |-> <<>>, writable |-> TRUE, target |-> t]

(* Bounds of the initial file systems. *)
MaxPreset == 1

StaleExtra == 2

MaxRuns == 2

(* Content a file may hold before the run: longer than the icon. *)
StaleData == [k \in 1..(Len(EmbeddedImageBytes) + StaleExtra) |-> 0]

FreeUnit == Len(EmbeddedImageBytes) \div 2

FreeChoices == {k * FreeUnit : k \in 0..(2 * Len(Manifest))}

EntryChoices(n) ==
    {Absent, File(StaleData, TRUE), File(StaleData, FALSE), Dir}
        \cup {Link(t) : t \in Paths \ {n}}

PresetChoices(n) == EntryChoices(n) \ {Absent}

(* At most MaxPreset manifest entries exist before the first run. *)
Presets ==
    UNION {[S -> UNION {PresetChoices(n) : n \in S}] :
             S \in {T \in SUBSET ManifestNames : Cardinality(T) <= MaxPreset}}

NoEntries == [p \in Paths |-> Absent]

NodeChoices ==
    {nd \in {[p \in Paths |->
                 IF p \in DOMAIN m THEN m[p]
                 ELSE IF p = Other THEN o
                 ELSE IF p = Outside THEN u
                 ELSE Absent] :
                m \in Presets,
                o \in {Absent, File(StaleData, TRUE)},
                u \in {Absent, File(StaleData, TRUE)}} :
        \A n \in ManifestNames :
            /\ nd[n] \in EntryChoices(n)
            /\ nd[n].kind = "link" => nd[nd[n].target].kind # "link"}

InitialFileSystems ==
    {[cwdWritable |-> cw, icons |-> "dir", iconsWritable |-> iw,
      iconsData |-> <<>>, node |-> nd, free |-> fr] :
        cw \in BOOLEAN, iw \in BOOLEAN, nd \in NodeChoices, fr \in FreeChoices}
    \cup
    {[cwdWritable |-> cw, icons |-> ic, iconsWritable |-> FALSE,
      iconsData |-> IF ic = "file" THEN StaleData ELSE <<>>,
      node |-> [NoEntries EXCEPT ![Outside] = out], free |-> fr] :
        cw \in BOOLEAN, ic \in {"absent", "file"},
        out \in {Absent, File(StaleData, TRUE)}, fr \in FreeChoices}

----------------------------------------------------------------------------
(* os.makedirs without exist_ok: an existing directory is an error. *)
makedirs_no_exist_ok(f) ==
    CASE f.icons = "absent" /\ f.cwdWritable ->
            [err |-> "", fs |-> [f EXCEPT !.icons = "dir", !.iconsWritable = TRUE]]
      [] f.icons = "absent" /\ ~f.cwdWritable ->
            [err |-> "PermissionError", fs |-> f]
      [] OTHER ->
            [err |-> "FileExistsError", fs |-> f]

(* Any OSError of mkdir swallowed, whatever occupies the path. *)
makedirs_swallow(f) ==
    CASE f.icons = "absent" /\ f.cwdWritable ->
            [err |-> "", fs |-> [f EXCEPT !.icons = "dir", !.iconsWritable = TRUE]]
      [] OTHER ->
            [err |-> "", fs |-> f]

(* The directory emptied before it is ensured. *)
makedirs_clean(f) ==
    CASE f.icons = "absent" /\ f.cwdWritable ->
            [err |-> "", fs |-> [f EXCEPT !.icons = "dir", !.iconsWritable = TRUE]]
      [] f.icons = "absent" /\ ~f.cwdWritable ->
            [err |-> "PermissionError", fs |-> f]
      [] f.icons = "dir" ->
            [err |-> "",
             fs |-> [f EXCEPT !.node = [p \in DOMAIN f.node |->
                                  IF p = "outside.txt" THEN f.node[p]
                                  ELSE [kind |-> "absent", data |-> <<>>,
                                        writable |-> FALSE, target |-> ""]]]]
      [] f.icons = "file" ->
            [err |-> "FileExistsError", fs |-> f]

(* Line 8: os.makedirs("icons", exist_ok=True).  "icons" has no parent      *)
(* segment, so this is one mkdir; an OSError from it is swallowed exactly   *)
(* when exist_ok is set and the path is a directory.                        *)
makedirs(f) ==
    CASE f.icons = "absent" /\ f.cwdWritable ->
            [err |-> "", fs |-> [f EXCEPT !.icons = "dir", !.iconsWritable = TRUE]]
      [] f.icons = "absent" /\ ~f.cwdWritable ->
            [err |-> "PermissionError", fs |-> f]
      [] f.icons = "dir" ->
            [err |-> "", fs |-> f]
      [] f.icons = "file" ->
            [err |-> "FileExistsError", fs |-> f]

(* Line 10: os.path.join("icons", name), followed through a symbolic link. *)
Resolve(f, name) ==
    IF f.node[name].kind = "link" THEN f.node[name].target ELSE name

ParentWritable(f, p) == IF p = Outside THEN f.cwdWritable ELSE f.iconsWritable

(* Mode "ab": nothing is truncated and the position is the end of the file. *)
open_ab(f, name) ==
    LET p == Resolve(f, name)
        n == f.node[p]
    IN  CASE n.kind = "file" /\ n.writable ->
                [err |-> "", node |-> p, pos |-> Len(n.data), fs |-> f]
          [] n.kind = "file" /\ ~n.writable ->
                [err |-> "PermissionError", node |-> p, pos |-> 0, fs |-> f]
          [] n.kind = "absent" /\ ParentWritable(f, p) ->
                [err |-> "", node |-> p, pos |-> 0,
                 fs |-> [f EXCEPT !.node[p] = File(<<>>, TRUE)]]
          [] n.kind = "absent" /\ ~ParentWritable(f, p) ->
                [err |-> "PermissionError", node |-> p, pos |-> 0, fs |-> f]
          [] n.kind = "dir" ->
                [err |-> "IsADirectoryError", node |-> p, pos |-> 0, fs |-> f]
          [] OTHER ->
                [err |-> "OSError", node |-> p, pos |-> 0, fs |-> f]

(* O_WRONLY | O_CREAT without O_TRUNC: the old content stays in place. *)
open_no_trunc(f, name) ==
    LET p == Resolve(f, name)
        n == f.node[p]
    IN  CASE n.kind = "file" /\ n.writable ->
                [err |-> "", node |-> p, pos |-> 0, fs |-> f]
          [] n.kind = "file" /\ ~n.writable ->
                [err |-> "PermissionError", node |-> p, pos |-> 0, fs |-> f]
          [] n.kind = "absent" /\ ParentWritable(f, p) ->
                [err |-> "", node |-> p, pos |-> 0,
                 fs |-> [f EXCEPT !.node[p] = File(<<>>, TRUE)]]
          [] n.kind = "absent" /\ ~ParentWritable(f, p) ->
                [err |-> "PermissionError", node |-> p, pos |-> 0, fs |-> f]
          [] n.kind = "dir" ->
                [err |-> "IsADirectoryError", node |-> p, pos |-> 0, fs |-> f]
          [] OTHER ->
                [err |-> "OSError", node |-> p, pos |-> 0, fs |-> f]

(* Line 10: open(path, "wb"): O_WRONLY | O_CREAT | O_TRUNC.  An existing    *)
(* file is truncated (its blocks are freed), a missing one is created in    *)
(* the directory that holds the resolved path; the position is 0.           *)
open_wb(f, name) ==
    LET p == Resolve(f, name)
        n == f.node[p]
    IN  CASE n.kind = "file" /\ n.writable ->
                [err |-> "", node |-> p, pos |-> 0,
                 fs |-> [f EXCEPT !.node[p].data = <<>>,
                                  !.free = @ + Len(n.data)]]
          [] n.kind = "file" /\ ~n.writable ->
                [err |-> "PermissionError", node |-> p, pos |-> 0, fs |-> f]
          [] n.kind = "absent" /\ ParentWritable(f, p) ->
                [err |-> "", node |-> p, pos |-> 0,
                 fs |-> [f EXCEPT !.node[p] = File(<<>>, TRUE)]]
          [] n.kind = "absent" /\ ~ParentWritable(f, p) ->
                [err |-> "PermissionError", node |-> p, pos |-> 0, fs |-> f]
          [] n.kind = "dir" ->
                [err |-> "IsADirectoryError", node |-> p, pos |-> 0, fs |-> f]
          [] OTHER ->
                [err |-> "OSError", node |-> p, pos |-> 0, fs |-> f]

Min(a, b) == IF a <= b THEN a ELSE b

Max(a, b) == IF a >= b THEN a ELSE b

(* The bytes b stored into d from position pos on. *)
StoreAt(d, pos, b) ==
    [k \in 1..Max(Len(d), pos + Len(b)) |->
        IF k > pos /\ k <= pos + Len(b) THEN b[k - pos] ELSE d[k]]

(* Line 11: f.write(icon_bytes) on the buffered writer: the bytes stay in   *)
(* the buffer, which is far larger than the icon.                           *)
write(h, b) == [h EXCEPT !.buffer = @ \o b]

(* A flush whose short write goes unreported. *)
flush_ignore_short(f, h) ==
    LET d == f.node[h.node].data
        fit == Min(Len(h.buffer), Max(0, f.free + Len(d) - h.pos))
        nd == StoreAt(d, h.pos, SubSeq(h.buffer, 1, fit))
    IN  [err |-> "",
         fs |-> [f EXCEPT !.node[h.node].data = nd,
                          !.free = @ - (Len(nd) - Len(d))]]

(* Leaving line 10's `with`: close() flushes the buffer with write(2),      *)
(* which stores what fits in the free space and fails with ENOSPC if        *)
(* that is not everything; the descriptor is released in both cases.        *)
flush(f, h) ==
    LET d == f.node[h.node].data
        fit == Min(Len(h.buffer), Max(0, f.free + Len(d) - h.pos))
        nd == StoreAt(d, h.pos, SubSeq(h.buffer, 1, fit))
    IN  [err |-> IF fit < Len(h.buffer) THEN "OSError" ELSE "",
         fs |-> [f EXCEPT !.node[h.node].data = nd,
                          !.free = @ - (Len(nd) - Len(d))]]

(* No `with`: the file object is never closed. *)
exit_with_leak(hs, h) == hs

(* The handles still open once the `with` block of handle h is left. *)
exit_with(hs, h) == hs \ {h}

----------------------------------------------------------------------------
Init ==
    /\ pc = "decode"
    /\ icon_bytes = Unbound
    /\ i = 0
    /\ handles = {}
    /\ stdout = <<>>
    /\ exc = ""
    /\ fs \in InitialFileSystems
    /\ run = 1
    /\ pre = fs
    /\ opened = <<>>
    /\ written = <<>>

(* The exception caught and the loop resumed. *)
Raise_continue(e) == pc' = "for" /\ exc' = e

(* Lines 6-11: nothing catches an exception, so it ends the run. *)
Raise(e) == pc' = "error" /\ exc' = e

(* Line 6. *)
Decode ==
    /\ pc = "decode"
    /\ LET r == Decoded
       IN  IF r.ok
           THEN icon_bytes' = r.bytes /\ pc' = "makedirs" /\ exc' = exc
           ELSE icon_bytes' = icon_bytes /\ Raise("binascii.Error")
    /\ UNCHANGED <<i, handles, stdout, fs, run, pre, opened, written>>

(* Line 8. *)
Makedirs ==
    /\ pc = "makedirs"
    /\ LET r == makedirs(fs)
       IN  /\ fs' = r.fs
           /\ IF r.err = "" THEN pc' = "for" /\ exc' = exc ELSE Raise(r.err)
    /\ UNCHANGED <<icon_bytes, i, handles, stdout, run, pre, opened, written>>

(* Line 9: bind the next name, or leave the loop. *)
ForNext ==
    /\ pc = "for"
    /\ IF i < Len(Manifest)
       THEN i' = i + 1 /\ pc' = "open"
       ELSE i' = i /\ pc' = "print"
    /\ UNCHANGED <<icon_bytes, handles, stdout, exc, fs, run, pre, opened, written>>

(* Line 10: open and enter the `with` block. *)
Open ==
    /\ pc = "open"
    /\ LET r == open_wb(fs, Manifest[i])
       IN  /\ fs' = r.fs
           /\ opened' = Append(opened, Manifest[i])
           /\ IF r.err = ""
              THEN /\ handles' = handles \cup
                          {[name |-> Manifest[i], node |-> r.node,
                            pos |-> r.pos, buffer |-> <<>>]}
                   /\ pc' = "write" /\ exc' = exc
              ELSE handles' = handles /\ Raise(r.err)
    /\ UNCHANGED <<icon_bytes, i, stdout, run, pre, written>>

(* The handle bound to f by the current iteration. *)
Current == CHOOSE h \in handles : h.name = Manifest[i]

(* Line 11. *)
Write ==
    /\ pc = "write"
    /\ handles' = (handles \ {Current}) \cup {write(Current, icon_bytes)}
    /\ pc' = "close"
    /\ UNCHANGED <<icon_bytes, i, stdout, exc, fs, run, pre, opened, written>>

(* Line 10: leave the `with` block. *)
Close ==
    /\ pc = "close"
    /\ LET r == flush(fs, Current)
       IN  /\ fs' = r.fs
           /\ handles' = exit_with(handles, Current)
           /\ IF r.err = ""
              THEN /\ written' = Append(written, Manifest[i])
                   /\ pc' = "for" /\ exc' = exc
              ELSE written' = written /\ Raise(r.err)
    /\ UNCHANGED <<icon_bytes, i, stdout, run, pre, opened>>

(* Line 13. *)
Emit ==
    /\ pc = "print"
    /\ stdout' = Append(stdout, Message)
    /\ pc' = "done"
    /\ UNCHANGED <<icon_bytes, i, handles, exc, fs, run, pre, opened, written>>

(* The script is started again right after a run that succeeded. *)
Rerun ==
    /\ pc = "done"
    /\ run < MaxRuns
    /\ pc' = "decode"
    /\ icon_bytes' = Unbound
    /\ i' = 0
    /\ handles' = {}
    /\ stdout' = <<>>
    /\ exc' = ""
    /\ run' = run + 1
    /\ pre' = fs
    /\ opened' = <<>>
    /\ written' = <<>>
    /\ UNCHANGED fs

Next ==
    \/ Decode
    \/ Makedirs
    \/ ForNext
    \/ Open
    \/ Write
    \/ Close
    \/ Emit
    \/ Rerun

Spec == Init /\ [][Next]_vars
----------------------------------------------------------------------------
(* Vocabulary of the properties. *)

(* The 70 bytes of the 1x1 PNG that the literal of line 5 encodes. *)
RedDotPng ==
    << 137, 80, 78, 71, 13, 10, 26, 10, 0, 0, 0, 13, 73, 72, 68, 82,
       0, 0, 0, 1, 0, 0, 0, 1, 8, 6, 0, 0, 0, 31, 21, 196, 137,
       0, 0, 0, 13, 73, 68, 65, 84, 120, 218, 99, 252, 207, 192, 80, 15,
       0, 4, 133, 1, 128, 132, 169, 140, 33,
       0, 0, 0, 0, 73, 69, 78, 68, 174, 66, 96, 130 >>

(* The order in which the manifest names the files. *)
ClaimedOrder == << "32x32.png", "128x128.png", "128x128@2x.png", "icon.png" >>

IsPrefix(s, t) == Len(s) <= Len(t) /\ s = SubSeq(t, 1, Len(s))

(* icons/<name> names a regular file (possibly through a link) holding d. *)
Holds(f, name, d) ==
    /\ f.icons = "dir"
    /\ f.node[Resolve(f, name)].kind = "file"
    /\ f.node[Resolve(f, name)].data = d

Terminal == pc \in {"done", "error"}

EmptyDirectory(f) == f.icons = "absent" /\ f.node = NoEntries

(* C1: after a run that completes successfully, each of the four manifest   *)
(* files exists and holds exactly the decoded literal, whatever the working *)
(* directory held before.                                                   *)
C1_ManifestHoldsImage ==
    pc = "done" =>
        /\ EmbeddedImageBytes = RedDotPng
        /\ \A n \in {ClaimedOrder[k] : k \in 1..4} : Holds(fs, n, RedDotPng)

C1_Witness ==
    /\ pc = "done" /\ run = 1
    /\ pre.node["icon.png"] = File(StaleData, TRUE)
    /\ Holds(fs, "icon.png", RedDotPng)

(* C2: a second run started right after a successful first run succeeds too *)
(* and leaves the file system exactly as the first run left it.             *)
C2_Idempotent ==
    run >= 2 =>
        /\ pc # "error"
        /\ pc # "done" => ENABLED Next
        /\ pc = "done" => fs = pre

C2_Witness == run = 2 /\ pc = "done" /\ fs = pre /\ written = Manifest

(* C3: with a plain file named icons the run goes on until it ends with     *)
(* FileExistsError at os.makedirs: the plain file (and everything else) is  *)
(* unchanged, no manifest file is opened, and nothing is printed.           *)
C3_PlainFileIcons ==
    pre.icons = "file" =>
        /\ pc \in {"decode", "makedirs", "error"}
        /\ pc # "error" => ENABLED Next
        /\ pc = "error" => exc = "FileExistsError"
        /\ fs = pre
        /\ opened = <<>> /\ written = <<>>
        /\ stdout = <<>>

C3_Witness ==
    /\ pre.icons = "file" /\ pc = "error" /\ exc = "FileExistsError"
    /\ fs.iconsData = StaleData

(* C4 as stated: whenever icons/ is absent or a directory, the ensure step  *)
(* raises nothing, leaves icons/ a directory (untouched if it was one) and  *)
(* the run proceeds to the file writes.                                     *)
C4_AlwaysProceeds ==
    [][(pc = "makedirs" /\ fs.icons \in {"absent", "dir"}) =>
            /\ pc' = "for"
            /\ fs'.icons = "dir"
            /\ fs.icons = "dir" => fs' = fs]_vars

(* C4 amended: an existing directory is left untouched and the run goes on; *)
(* a missing one is created, and the run goes on, when the working          *)
(* directory permits it; when it does not, the run ends with                *)
(* PermissionError and nothing is created.                                  *)
C4_CreateIfAbsent ==
    [][pc = "makedirs" =>
          /\ fs.icons = "dir" => (pc' = "for" /\ fs' = fs)
          /\ (fs.icons = "absent" /\ fs.cwdWritable) =>
                /\ pc' = "for"
                /\ fs' = [fs EXCEPT !.icons = "dir", !.iconsWritable = TRUE]
          /\ (fs.icons = "absent" /\ ~fs.cwdWritable) =>
                (pc' = "error" /\ exc' = "PermissionError" /\ fs' = fs)]_vars

C4_Witness ==
    /\ pc = "for" /\ i = 0
    /\ pre.icons = "absent" /\ fs.icons = "dir"

(* C5: the confirmation is printed at most once per run, and only once all  *)
(* four files are written in full and closed; a run that fails prints       *)
(* nothing.                                                                 *)
C5_MessageOnlyAfterSuccess ==
    /\ Len(stdout) <= 1
    /\ stdout # <<>> =>
          /\ pc = "done"
          /\ written = ClaimedOrder
          /\ handles = {}
          /\ \A n \in ManifestNames : Holds(fs, n, EmbeddedImageBytes)
    /\ pc = "error" => stdout = <<>>

C5_Witness == stdout = <<Message>> /\ pc = "done"

(* C6: from an empty working directory a successful run leaves icons/ with  *)
(* exactly the four manifest files, each as long as the decoded literal,    *)
(* and nothing outside icons/.                                              *)
C6_FromEmptyDirectory ==
    (run = 1 /\ pc = "done" /\ EmptyDirectory(pre)) =>
        /\ fs.icons = "dir"
        /\ {p \in Paths : fs.node[p].kind # "absent"}
              = {ClaimedOrder[k] : k \in 1..4}
        /\ \A n \in {ClaimedOrder[k] : k \in 1..4} :
              /\ fs.node[n].kind = "file"
              /\ Len(fs.node[n].data) = Len(EmbeddedImageBytes)

C6_Witness ==
    /\ run = 1 /\ pc = "done" /\ EmptyDirectory(pre)
    /\ Len(fs.node["icon.png"].data) = 70

(* C7: an exception always ends the run; when the write of the N-th file    *)
(* fails, the N-1 files written before hold the decoded literal, exactly    *)
(* the first N files were opened, each once, and no further step is         *)
(* possible.                                                                *)
C7_FailureIsFatal ==
    /\ exc # "" => pc = "error"
    /\ (pc = "error" /\ opened # <<>>) =>
        LET N == Len(opened)
        IN  /\ i = N
            /\ opened = SubSeq(ClaimedOrder, 1, N)
            /\ written = SubSeq(ClaimedOrder, 1, N - 1)
            /\ \A k \in 1..(N - 1) : Holds(fs, ClaimedOrder[k], EmbeddedImageBytes)
            /\ ~ENABLED Next

C7_Witness ==
    /\ pc = "error" /\ exc = "OSError" /\ Len(opened) = 3
    /\ Holds(fs, "128x128.png", EmbeddedImageBytes)

(* C8: at most one file handle is open at any time, none is open when the   *)
(* next file is about to be opened, and none is open in a terminal state.   *)
C8_ScopedHandles ==
    /\ Cardinality(handles) <= 1
    /\ pc \in {"for", "open"} => handles = {}
    /\ Terminal => handles = {}

C8_Witness == pc = "error" /\ exc = "OSError" /\ handles = {} /\ Len(opened) = 2

(* C9: decode, then ensure the directory, then the files in manifest order: *)
(* nothing is touched before the decode has bound icon_bytes (so a failed   *)
(* decode leaves the file system as it was), no file is opened before       *)
(* os.makedirs has returned, and the files opened and the files completed   *)
(* are always prefixes of the manifest.                                     *)
C9_FixedOrder ==
    /\ (pc = "decode" \/ exc = "binascii.Error") => fs = pre
    /\ pc \in {"decode", "makedirs"} => opened = <<>>
    /\ pc \notin {"decode", "error"} => icon_bytes = RedDotPng
    /\ opened # <<>> => (fs.icons = "dir" /\ icon_bytes = RedDotPng)
    /\ IsPrefix(opened, ClaimedOrder)
    /\ IsPrefix(written, ClaimedOrder)
    /\ Len(opened) - Len(written) \in {0, 1}

C9_Witness == pc = "open" /\ written = <<"32x32.png", "128x128.png">>

(* C10 as stated: every non-manifest file of icons/ and every path outside  *)
(* icons/ keeps its pre-run content in every state of every run.            *)
C10_OthersUntouched ==
    /\ fs.node[Other] = pre.node[Other]
    /\ fs.node[Outside] = pre.node[Outside]
    /\ fs.iconsData = pre.iconsData

(* C10 amended: nothing is ever deleted or changes kind, and every          *)
(* non-manifest file of icons/ and every path outside icons/ that no        *)
(* manifest entry is a symbolic link to keeps its pre-run content.          *)
C10_UnlinkedUntouched ==
    /\ \A p \in {Other, Outside} :
          (\A n \in ManifestNames : pre.node[n] # Link(p)) =>
              fs.node[p] = pre.node[p]
    /\ \A p \in Paths :
          pre.node[p].kind # "absent" => fs.node[p].kind = pre.node[p].kind
    /\ \A n \in ManifestNames : pre.node[n].kind = "link" => fs.node[n] = pre.node[n]
    /\ pre.icons # "absent" => fs.icons = pre.icons
    /\ fs.iconsData = pre.iconsData

C10_Witness ==
    /\ pc = "done" /\ run = 1
    /\ pre.node["icon.png"] = Link("32x32.png")
    /\ pre.node[Other] = File(StaleData, TRUE) /\ fs.node[Other] = pre.node[Other]
    /\ pre.node[Outside] = File(StaleData, TRUE) /\ fs.node[Outside] = pre.node[Outside]
====
